---- MODULE Spec2Model ----
(***************************************************************************)
(* Model of AsyncAnamnesisModelClient (src/utils/Create_model_client.py):  *)
(* construction with the prompt load, message preparation, the streamed    *)
(* generation call, the per-chunk accumulation loop, the final parsing of  *)
(* the two response formats and the JSON validation done by run.           *)
(*                                                                         *)
(* A Python str is a sequence of one-character strings.  An optional value *)
(* (a delta field that may be None, the value run returns) is a sequence   *)
(* of length 0 (None) or 1 (the value).                                    *)
(***************************************************************************)
EXTENDS Integers, Sequences, FiniteSets, TLC

\* ------------------------------------------------------------------ bounds
\* Longest fragment stream the generation service delivers in one run.
MaxChunks == 3
\* Most content-bearing fragments the fixed text is split into.
MaxPieces == 3
\* Most heartbeat fragments interleaved with the pieces of the fixed text.
MaxHeartbeats == 1

\* Longest stream that is interpreted a second time by the same client.
MaxReplay == 2

\* Most logServer() calls, set_config calls and clock ticks.
MaxConstructions == 2
MaxConfigs == 2
MaxMinute == 2

\* ----------------------------------------------------------------- strings
None == <<>>
Some(v) == <<v>>

Min(S) == CHOOSE x \in S : \A y \in S : x <= y
Max(S) == CHOOSE x \in S : \A y \in S : x >= y

\* The whitespace str.strip() and the JSON scanner skip, among the
\* characters the deltas of this model are made of.
Whitespace == {" ", "\t", "\n", "\r"}

START_TAG == <<"<", "t", "h", "i", "n", "k", ">">>
END_TAG == <<"<", "/", "t", "h", "i", "n", "k", ">">>

\* The literal returned when no reasoning was found (lines 116 and 130):
\* its seven ideographs are one token, the full-width full stop the other.
SENTINEL == <<"NO_REASONING_FOUND", "IDEOGRAPHIC_FULL_STOP">>
\* The literal run compares the reasoning with (line 144): the same
\* ideographs followed by an ASCII full stop.
RUN_SENTINEL == <<"NO_REASONING_FOUND", ".">>

NO_THINK == <<"/", "n", "o", "_", "t", "h", "i", "n", "k", "\n">>

\* s[a:b] for 0 <= a, b <= len(s).
Slice(s, a, b) == SubSeq(s, a + 1, b)

\* sub in s
Contains(s, sub) ==
    \E i \in 0..(Len(s) - Len(sub)) : Slice(s, i, i + Len(sub)) = sub

\* s.find(sub): the lowest index where sub occurs, -1 when it does not.
Find(s, sub) ==
    LET hits == {i \in 0..(Len(s) - Len(sub)) : Slice(s, i, i + Len(sub)) = sub}
    IN  IF hits = {} THEN -1 ELSE Min(hits)

\* A strip that trims the left end only.
Strip_LeftOnly(s) ==
    LET keep == {i \in 1..Len(s) : s[i] \notin Whitespace}
    IN  IF keep = {} THEN <<>> ELSE SubSeq(s, Min(keep), Len(s))

\* s.strip()
Strip(s) ==
    LET keep == {i \in 1..Len(s) : s[i] \notin Whitespace}
    IN  IF keep = {} THEN <<>> ELSE SubSeq(s, Min(keep), Max(keep))

\* ------------------------------------------------------------ json.loads
\* The recogniser follows the standard decoder on the characters this model
\* builds answers from: whitespace, objects, arrays, strings without
\* escapes, integers and the literals.  An index is a Python index (the
\* character at index i is s[i + 1]); a scan returns the index after the
\* item it read, or -1 when it raises JSONDecodeError.
Digits == {"0", "1", "2", "3", "4", "5", "6", "7", "8", "9"}
ControlChars == {"\t", "\n", "\r"}
JsonLiterals == { <<"n", "u", "l", "l">>, <<"t", "r", "u", "e">>,
                  <<"f", "a", "l", "s", "e">>, <<"N", "a", "N">>,
                  <<"I", "n", "f", "i", "n", "i", "t", "y">>,
                  <<"-", "I", "n", "f", "i", "n", "i", "t", "y">> }

\* WHITESPACE.match(s, i).end()
SkipWs(s, i) == Min({j \in i..Len(s) : j = Len(s) \/ s[j + 1] \notin Whitespace})

\* scanstring(s, i) in strict mode, i being the index after the opening quote.
ScanString(s, i) ==
    LET stops == {j \in i..(Len(s) - 1) : s[j + 1] \in ControlChars \cup {"\"", "\\"}}
    IN  IF stops = {} THEN -1
        ELSE IF s[Min(stops) + 1] = "\"" THEN Min(stops) + 1 ELSE -1

\* NUMBER_RE.match(s, i) restricted to its integer part.
ScanNumber(s, i) ==
    LET m == IF s[i + 1] = "-" THEN i + 1 ELSE i
    IN  IF m >= Len(s) \/ s[m + 1] \notin Digits THEN -1
        ELSE IF s[m + 1] = "0" THEN m + 1
        ELSE Min({j \in (m + 1)..Len(s) : j = Len(s) \/ s[j + 1] \notin Digits})

ScanLiteral(s, i) ==
    LET hits == {l \in JsonLiterals :
                    i + Len(l) <= Len(s) /\ Slice(s, i, i + Len(l)) = l}
    IN  IF hits = {} THEN -1 ELSE i + Len(CHOOSE l \in hits : TRUE)

RECURSIVE ScanOnce(_, _), ScanMembers(_, _), ScanElements(_, _)

\* JSONObject's loop, i being the index after the opening quote of a key.
ScanMembers(s, i) ==
    LET k == ScanString(s, i)
        c == IF k = -1 THEN -1 ELSE SkipWs(s, k)
        v == IF c = -1 \/ c >= Len(s) \/ s[c + 1] # ":" THEN -1
             ELSE ScanOnce(s, SkipWs(s, c + 1))
        e == IF v = -1 THEN -1 ELSE SkipWs(s, v)
        n == IF e = -1 \/ e >= Len(s) THEN -1 ELSE SkipWs(s, e + 1)
    IN  IF e = -1 \/ e >= Len(s) THEN -1
        ELSE IF s[e + 1] = "}" THEN e + 1
        ELSE IF s[e + 1] # "," THEN -1
        ELSE IF n >= Len(s) \/ s[n + 1] # "\"" THEN -1
        ELSE ScanMembers(s, n + 1)

\* JSONObject, i being the index after the opening brace.
ScanObject(s, i) ==
    LET j == SkipWs(s, i)
    IN  IF j >= Len(s) THEN -1
        ELSE IF s[j + 1] = "}" THEN j + 1
        ELSE IF s[j + 1] # "\"" THEN -1
        ELSE ScanMembers(s, j + 1)

\* JSONArray's loop, i being the index of the first character of an element.
ScanElements(s, i) ==
    LET v == ScanOnce(s, i)
        e == IF v = -1 THEN -1 ELSE SkipWs(s, v)
    IN  IF e = -1 \/ e >= Len(s) THEN -1
        ELSE IF s[e + 1] = "]" THEN e + 1
        ELSE IF s[e + 1] # "," THEN -1
        ELSE ScanElements(s, SkipWs(s, e + 1))

\* JSONArray, i being the index after the opening bracket.
ScanArray(s, i) ==
    LET j == SkipWs(s, i)
    IN  IF j >= Len(s) THEN -1
        ELSE IF s[j + 1] = "]" THEN j + 1
        ELSE ScanElements(s, j)

\* scan_once(s, i)
ScanOnce(s, i) ==
    IF i >= Len(s) THEN -1
    ELSE IF s[i + 1] = "\"" THEN ScanString(s, i + 1)
    ELSE IF s[i + 1] = "{" THEN ScanObject(s, i + 1)
    ELSE IF s[i + 1] = "[" THEN ScanArray(s, i + 1)
    ELSE IF ScanNumber(s, i) # -1 THEN ScanNumber(s, i)
    ELSE ScanLiteral(s, i)

\* json.loads(s) returns (TRUE) or raises JSONDecodeError (FALSE).
JsonLoads(s) ==
    LET e == ScanOnce(s, SkipWs(s, 0))
    IN  e # -1 /\ SkipWs(s, e) = Len(s)

\* ------------------------------------------------------- inputs of the model
\* The prompt file as the file system holds it when the client is built.
PromptText == <<" ", "P", "\n">>
PromptFiles == { [kind |-> "ok", text |-> PromptText],
                 [kind |-> "missing", text |-> <<>>],
                 [kind |-> "unreadable", text |-> <<>>] }

UserInputs == { <<>>, <<"u", "\n">> }

\* The reasoning_content and content fields a chunk's delta can carry.
ReasoningDeltas == { None, Some(<<>>), Some(<<"r">>) }
ContentDeltas ==
    { None, Some(<<>>), Some(<<" ", "1">>), Some(<<" ">>),
      Some(START_TAG \o <<"a", " ">>), Some(END_TAG) }
Chunks == [reasoning_content : ReasoningDeltas, content : ContentDeltas]

\* The text of the boundary-independence property: <think>abc</think>{"x":1}
ANSWER_JSON == <<"{", "\"", "x", "\"", ":", "1", "}">>
TAGGED_TEXT == START_TAG \o <<"a", "b", "c">> \o END_TAG \o ANSWER_JSON

\* The handler loguru installs when it is imported: id 0, to stderr.
DefaultHandler ==
    [id |-> 0, sink |-> "stderr", name |-> 0, level |-> "DEBUG", by |-> "loguru"]
\* The levels set_config is called with, and the levels of the log calls.
ConfigLevels == {"DEBUG", "INFO"}
MessageLevels == {"DEBUG", "ERROR"}
LevelNo(l) ==
    CASE l = "DEBUG" -> 10
      [] l = "INFO" -> 20
      [] l = "WARNING" -> 30
      [] OTHER -> 40

\* ------------------------------------------------------------------- state
VARIABLES
    prompt_file,              \* the prompt file on disk
    pc,                       \* where the caller's coroutine is
    exc,                      \* the exception raised last ("None" when none)
    client,                   \* TRUE once __init__ has returned an object
    system_prompt_template,   \* self.system_prompt_template (optional)
    user_input,               \* run's arguments
    enable_thinking,
    messages,                 \* the list _prepare_messages returned
    requests,                 \* chat.completions.create calls issued
    delivered,                \* the chunks the stream has yielded so far
    is_official_api,          \* locals of _stream_and_process_response_async
    thinking_process,
    final_answer,
    full_response_content,
    printed,                  \* what print() has written, one entry per call
    run_thinking,             \* run's thinking_process, final_json_str (optional)
    final_json_str,
    returned,                 \* the value run returned (optional)
    logged,                   \* the logger calls, in order
    prev,                     \* the outcome of the client's earlier run (optional)
    main_pc,                  \* where main.main is
    pw_pc,                    \* where PlaywrightServer.run is
    pw_i,                     \* its loop variable i
    pw_held,                  \* the Playwright resources the helper holds
    pw_closes,                \* calls of PlaywrightHelper.close so far
    pw_exc,                   \* the exception PlaywrightServer.run handles or raises
    pw_failed_in,             \* the step of run in which it was raised
    ls_objects,               \* logServer objects allocated so far
    ls_instance,              \* logServer._instance (0 for None, else the object)
    ls_returned,              \* the object each logServer() call returned
    ls_filename,              \* self.filename of the instance (0 before __init__)
    ls_file_id,               \* self._file_handler_id (-1 for None)
    ls_console_id,            \* self._console_handler_id (-1 for None)
    ls_configs,               \* set_config calls so far
    minute,                   \* the wall clock, in minutes
    handlers,                 \* the handlers of the loguru logger
    next_handler_id,          \* the id logger.add gives out next
    last_emit                 \* the lines the last log call produced (optional)

env == <<prompt_file>>
ctl == <<pc, exc, client>>
args == <<system_prompt_template, user_input, enable_thinking, messages, requests>>
locals == <<is_official_api, thinking_process, final_answer, full_response_content>>
outs == <<run_thinking, final_json_str, returned>>
hist == <<prev>>
tasks == <<main_pc, pw_pc, pw_i, pw_held, pw_closes, pw_exc, pw_failed_in>>
logcfg == <<ls_objects, ls_instance, ls_returned, ls_filename, ls_file_id,
            ls_console_id, ls_configs, minute, handlers, next_handler_id,
            last_emit>>
vars == <<env, ctl, args, delivered, locals, printed, outs, logged, hist, tasks,
          logcfg>>

\* ------------------------------------------------------------ pure helpers
\* Exceptions `except Exception` catches; CancelledError and SystemExit
\* derive from BaseException only.
Exceptions == {"APIError", "JSONDecodeError", "OSError"}
IsException_All(e) == TRUE
IsException(e) == e \in Exceptions

\* _load_system_prompt without the exit(): logs and falls off the end.
LoadSystemPrompt_NoExit(file) ==
    CASE file.kind = "ok" ->
            [exc |-> "None", value |-> Some(file.text),
             log |-> << <<"info", "load_prompt">> >>]
      [] file.kind = "missing" ->
            [exc |-> "None", value |-> None,
             log |-> << <<"info", "load_prompt">>, <<"error", "prompt_not_found">> >>]
      [] OTHER ->
            [exc |-> "OSError", value |-> None,
             log |-> << <<"info", "load_prompt">> >>]

\* _load_system_prompt: the text read, SystemExit from exit() when the file
\* is not found, or the uncaught error of open()/read().
LoadSystemPrompt(file) ==
    CASE file.kind = "ok" ->
            [exc |-> "None", value |-> Some(file.text),
             log |-> << <<"info", "load_prompt">> >>]
      [] file.kind = "missing" ->
            [exc |-> "SystemExit", value |-> None,
             log |-> << <<"info", "load_prompt">>, <<"error", "prompt_not_found">> >>]
      [] OTHER ->
            [exc |-> "OSError", value |-> None,
             log |-> << <<"info", "load_prompt">> >>]

\* _prepare_messages that puts the marker after the input.
PrepareMessages_Suffix(system_content, input, thinking) ==
    << [role |-> "system", content |-> system_content],
       [role |-> "user",
        content |-> IF ~thinking THEN input \o NO_THINK ELSE input] >>

\* _prepare_messages
PrepareMessages(system_content, input, thinking) ==
    << [role |-> "system", content |-> system_content],
       [role |-> "user",
        content |-> IF ~thinking THEN NO_THINK \o input ELSE input] >>

\* The tag parsing that accepts the tags in either order.
ParseTagged_AnyOrder(content) ==
    LET start_index == Find(content, START_TAG)
        end_index == Find(content, END_TAG)
    IN  IF Contains(content, START_TAG) /\ Contains(content, END_TAG)
           /\ start_index # -1 /\ end_index # -1
        THEN IF start_index < end_index
             THEN << Strip(Slice(content, start_index + Len(START_TAG), end_index)),
                     Strip(Slice(content, end_index + Len(END_TAG), Len(content))) >>
             ELSE << Strip(Slice(content, end_index + Len(END_TAG), start_index)),
                     Strip(Slice(content, start_index + Len(START_TAG), Len(content))) >>
        ELSE << SENTINEL, Strip(content) >>

\* The tag parsing that looks for the last </think> (rfind).
ParseTagged_LastClose(content) ==
    LET start_index == Find(content, START_TAG)
        ends == {i \in 0..(Len(content) - Len(END_TAG)) :
                    Slice(content, i, i + Len(END_TAG)) = END_TAG}
        end_index == IF ends = {} THEN -1 ELSE Max(ends)
    IN  IF Contains(content, START_TAG) /\ Contains(content, END_TAG)
           /\ start_index # -1 /\ end_index # -1 /\ start_index < end_index
        THEN << Strip(Slice(content, start_index + Len(START_TAG), end_index)),
                Strip(Slice(content, end_index + Len(END_TAG), Len(content))) >>
        ELSE << SENTINEL, Strip(content) >>

\* Lines 119-130: the <think> tag parsing of the accumulated content.
ParseTagged(content) ==
    LET start_index == Find(content, START_TAG)
        end_index == Find(content, END_TAG)
    IN  IF Contains(content, START_TAG) /\ Contains(content, END_TAG)
           /\ start_index # -1 /\ end_index # -1 /\ start_index < end_index
        THEN << Strip(Slice(content, start_index + Len(START_TAG), end_index)),
                Strip(Slice(content, end_index + Len(END_TAG), Len(content))) >>
        ELSE << SENTINEL, Strip(content) >>

\* The final parse that strips the dual-channel answer as well.
FinalParse_TrimDual(official, thinking, answer, content) ==
    IF official
    THEN << IF thinking # <<>> THEN thinking ELSE SENTINEL, Strip(answer) >>
    ELSE ParseTagged(content)

\* The final parse that puts the content received before the first
\* reasoning delta in front of the dual-channel answer.
FinalParse_MergeRaw(official, thinking, answer, content) ==
    IF official
    THEN << IF thinking # <<>> THEN thinking ELSE SENTINEL, content \o answer >>
    ELSE ParseTagged(content)

\* Lines 115-130: the pair the streaming method returns.
FinalParse(official, thinking, answer, content) ==
    IF official
    THEN << IF thinking # <<>> THEN thinking ELSE SENTINEL, answer >>
    ELSE ParseTagged(content)

\* The loop body with a flag that follows the current chunk only.
ProcessChunk_NotSticky(st, chunk) ==
    LET r == chunk.reasoning_content
        c == chunk.content
        seen == r # None
        official == seen
        shown == IF seen THEN Append(st.printed, r[1]) ELSE st.printed
    IN  [ is_official_api |-> official,
          thinking_process |->
              IF seen THEN st.thinking_process \o r[1] ELSE st.thinking_process,
          full_response_content |->
              IF c # None /\ ~official
              THEN st.full_response_content \o c[1] ELSE st.full_response_content,
          final_answer |->
              IF c # None /\ official
              THEN st.final_answer \o c[1] ELSE st.final_answer,
          printed |-> IF c # None THEN Append(shown, c[1]) ELSE shown ]

\* The loop body that assigns the content delta instead of appending it.
ProcessChunk_Overwrite(st, chunk) ==
    LET r == chunk.reasoning_content
        c == chunk.content
        seen == r # None
        official == st.is_official_api \/ seen
        shown == IF seen THEN Append(st.printed, r[1]) ELSE st.printed
    IN  [ is_official_api |-> official,
          thinking_process |->
              IF seen THEN st.thinking_process \o r[1] ELSE st.thinking_process,
          full_response_content |->
              IF c # None /\ ~official THEN c[1] ELSE st.full_response_content,
          final_answer |->
              IF c # None /\ official THEN c[1] ELSE st.final_answer,
          printed |-> IF c # None THEN Append(shown, c[1]) ELSE shown ]

\* The loop body that handles the content with elif: the content delta of a
\* chunk that carries a reasoning delta is skipped.
ProcessChunk_Elif(st, chunk) ==
    LET r == chunk.reasoning_content
        c == chunk.content
        seen == r # None
        official == st.is_official_api \/ seen
        shown == IF seen THEN Append(st.printed, r[1]) ELSE st.printed
    IN  [ is_official_api |-> official,
          thinking_process |->
              IF seen THEN st.thinking_process \o r[1] ELSE st.thinking_process,
          full_response_content |->
              IF ~seen /\ c # None /\ ~official
              THEN st.full_response_content \o c[1] ELSE st.full_response_content,
          final_answer |->
              IF ~seen /\ c # None /\ official
              THEN st.final_answer \o c[1] ELSE st.final_answer,
          printed |-> IF ~seen /\ c # None THEN Append(shown, c[1]) ELSE shown ]

\* The loop body that prints the content delta before the reasoning delta.
ProcessChunk_PrintOrder(st, chunk) ==
    LET r == chunk.reasoning_content
        c == chunk.content
        seen == r # None
        official == st.is_official_api \/ seen
        shown == IF c # None THEN Append(st.printed, c[1]) ELSE st.printed
    IN  [ is_official_api |-> official,
          thinking_process |->
              IF seen THEN st.thinking_process \o r[1] ELSE st.thinking_process,
          full_response_content |->
              IF c # None /\ ~official
              THEN st.full_response_content \o c[1] ELSE st.full_response_content,
          final_answer |->
              IF c # None /\ official
              THEN st.final_answer \o c[1] ELSE st.final_answer,
          printed |-> IF seen THEN Append(shown, r[1]) ELSE shown ]

\* The loop body that routes the content delta by the flag as it was
\* before this chunk's reasoning delta was looked at.
ProcessChunk_FlagBefore(st, chunk) ==
    LET r == chunk.reasoning_content
        c == chunk.content
        seen == r # None
        official == st.is_official_api \/ seen
        shown == IF seen THEN Append(st.printed, r[1]) ELSE st.printed
    IN  [ is_official_api |-> official,
          thinking_process |->
              IF seen THEN st.thinking_process \o r[1] ELSE st.thinking_process,
          full_response_content |->
              IF c # None /\ ~st.is_official_api
              THEN st.full_response_content \o c[1] ELSE st.full_response_content,
          final_answer |->
              IF c # None /\ st.is_official_api
              THEN st.final_answer \o c[1] ELSE st.final_answer,
          printed |-> IF c # None THEN Append(shown, c[1]) ELSE shown ]

\* Lines 93-110: the body of the loop over the stream, for one chunk.
ProcessChunk(st, chunk) ==
    LET r == chunk.reasoning_content
        c == chunk.content
        seen == r # None
        official == st.is_official_api \/ seen
        shown == IF seen THEN Append(st.printed, r[1]) ELSE st.printed
    IN  [ is_official_api |-> official,
          thinking_process |->
              IF seen THEN st.thinking_process \o r[1] ELSE st.thinking_process,
          full_response_content |->
              IF c # None /\ ~official
              THEN st.full_response_content \o c[1] ELSE st.full_response_content,
          final_answer |->
              IF c # None /\ official
              THEN st.final_answer \o c[1] ELSE st.final_answer,
          printed |-> IF c # None THEN Append(shown, c[1]) ELSE shown ]

\* An except block that hands back what was accumulated.
ExceptReturn_Partial(answer) == Some(answer)

\* Lines 157-162: the except block ends after its logging; run returns None.
ExceptReturn(answer) == None

ErrorLines ==
    << <<"error", "call_failed">>, <<"error", "please_check">>,
       <<"error", "service_started">>, <<"error", "base_url">>,
       <<"error", "model_uid">> >>

\* An exception e raised inside run's try block, the log being log0 so far.
RunRaises(e, log0) ==
    /\ exc' = e
    /\ IF IsException(e)
       THEN /\ pc' = "returned"
            /\ returned' = ExceptReturn(IF is_official_api THEN final_answer
                                        ELSE full_response_content)
            /\ logged' = log0 \o ErrorLines
       ELSE /\ pc' = "raised"
            /\ UNCHANGED returned
            /\ logged' = log0

\* ----------------------------------------------------------------- actions
Init ==
    /\ prompt_file \in PromptFiles
    /\ pc = "start"
    /\ exc = "None"
    /\ client = FALSE
    /\ system_prompt_template = None
    /\ user_input = <<>>
    /\ enable_thinking = TRUE
    /\ messages = <<>>
    /\ requests = 0
    /\ delivered = <<>>
    /\ is_official_api = FALSE
    /\ thinking_process = <<>>
    /\ final_answer = <<>>
    /\ full_response_content = <<>>
    /\ printed = <<>>
    /\ run_thinking = None
    /\ final_json_str = None
    /\ returned = None
    /\ logged = <<>>
    /\ prev = None
    /\ main_pc = "start"
    /\ pw_pc = "new"
    /\ pw_i = 0
    /\ pw_held = {}
    /\ pw_closes = 0
    /\ pw_exc = "None"
    /\ pw_failed_in = "none"
    /\ ls_objects = 0
    /\ ls_instance = 0
    /\ ls_returned = <<>>
    /\ ls_filename = 0
    /\ ls_file_id = -1
    /\ ls_console_id = -1
    /\ ls_configs = 0
    /\ minute = 1
    /\ handlers = {DefaultHandler}
    /\ next_handler_id = 1
    /\ last_emit = None

\* AsyncAnamnesisModelClient.__init__ (lines 12-27)
Construct ==
    /\ pc = "start"
    /\ LET r == LoadSystemPrompt(prompt_file)
       IN  /\ logged' = logged \o r.log
           /\ IF r.exc = "None"
              THEN /\ system_prompt_template' = r.value
                   /\ client' = TRUE
                   /\ pc' = "ready"
                   /\ UNCHANGED exc
              ELSE /\ exc' = r.exc
                   /\ pc' = "raised"
                   /\ UNCHANGED <<system_prompt_template, client>>
    /\ UNCHANGED <<env, hist, tasks, logcfg, user_input, enable_thinking, messages, requests,
                   delivered, locals, printed, outs>>

\* run up to its first suspension: the messages are prepared and the
\* generation request is issued (lines 141-142, 76-83).
RunStart ==
    /\ pc = "ready"
    /\ client
    /\ \E u \in UserInputs, t \in BOOLEAN :
          /\ user_input' = u
          /\ enable_thinking' = t
          /\ messages' = PrepareMessages(system_prompt_template, u, t)
    /\ requests' = requests + 1
    /\ pc' = "creating"
    /\ UNCHANGED <<env, hist, tasks, logcfg, exc, client, system_prompt_template, delivered, locals,
                   printed, outs, logged>>

\* The buffers kept on the object instead of being set anew by each call.
CreateReturns_KeepBuffers ==
    /\ pc = "creating"
    /\ pc' = "streaming"
    /\ delivered' = <<>>
    /\ logged' = Append(logged, <<"debug", "stream_output">>)
    /\ UNCHANGED <<env, hist, tasks, logcfg, exc, client, args, locals, printed, outs>>

\* The generation call returns the stream; the locals are set (lines 85-90).
CreateReturns ==
    /\ pc = "creating"
    /\ pc' = "streaming"
    /\ delivered' = <<>>
    /\ is_official_api' = FALSE
    /\ thinking_process' = <<>>
    /\ final_answer' = <<>>
    /\ full_response_content' = <<>>
    /\ logged' = Append(logged, <<"debug", "stream_output">>)
    /\ UNCHANGED <<env, hist, tasks, logcfg, exc, client, args, printed, outs>>

\* The generation call raises (connection refused, bad model, bad key).
CreateFails ==
    /\ pc = "creating"
    /\ RunRaises("APIError", logged)
    /\ UNCHANGED <<env, hist, tasks, logcfg, client, args, delivered, locals, printed,
                   run_thinking, final_json_str>>

\* One pass of the loop of lines 92-110 over the chunk the stream yields.
Consume(chunk) ==
    /\ pc = "streaming"
    /\ delivered' = Append(delivered, chunk)
    /\ LET st == ProcessChunk(
                    [ is_official_api |-> is_official_api,
                      thinking_process |-> thinking_process,
                      full_response_content |-> full_response_content,
                      final_answer |-> final_answer,
                      printed |-> printed ], chunk)
       IN  /\ is_official_api' = st.is_official_api
           /\ thinking_process' = st.thinking_process
           /\ full_response_content' = st.full_response_content
           /\ final_answer' = st.final_answer
           /\ printed' = st.printed
    /\ UNCHANGED <<env, hist, tasks, logcfg, ctl, args, outs, logged>>

ChunkArrives ==
    /\ Len(delivered) < MaxChunks
    /\ \E chunk \in Chunks : Consume(chunk)

\* The stream ends: lines 112-130, then run's lines 144-155 or, when
\* json.loads raises, its except block.
StreamEnds ==
    /\ pc = "streaming"
    /\ printed' = Append(printed, <<"\n">>)
    /\ LET pair == FinalParse(is_official_api, thinking_process, final_answer,
                              full_response_content)
           log1 == IF pair[1] # RUN_SENTINEL /\ Len(pair[1]) > 0
                   THEN Append(logged, <<"info", "model_reasoning">>)
                   ELSE logged
       IN  /\ run_thinking' = Some(pair[1])
           /\ final_json_str' = Some(pair[2])
           /\ IF JsonLoads(pair[2])
              THEN /\ logged' = Append(log1, <<"info", "model_output">>)
                   /\ returned' = Some(pair[2])
                   /\ pc' = "returned"
                   /\ UNCHANGED exc
              ELSE RunRaises("JSONDecodeError", log1)
    /\ UNCHANGED <<env, hist, tasks, logcfg, client, args, delivered, locals>>

\* The stream raises while the loop waits for the next chunk.
StreamFails ==
    /\ pc = "streaming"
    /\ RunRaises("APIError", logged)
    /\ UNCHANGED <<env, hist, tasks, logcfg, client, args, delivered, locals, printed,
                   run_thinking, final_json_str>>

\* The caller cancels the task while run is suspended in the generation
\* call or in the loop: CancelledError is raised at the await.
Cancel ==
    /\ pc \in {"creating", "streaming"}
    /\ RunRaises("CancelledError", logged)
    /\ UNCHANGED <<env, hist, tasks, logcfg, client, args, delivered, locals, printed,
                   run_thinking, final_json_str>>

Next ==
    \/ Construct
    \/ RunStart
    \/ CreateReturns
    \/ CreateFails
    \/ ChunkArrives
    \/ StreamEnds
    \/ StreamFails
    \/ Cancel

Spec == Init /\ [][Next]_vars

\* ------------------------------------------ the fixed text, split anywhere
RECURSIVE ContentOf(_)
\* The content deltas of a chunk sequence, concatenated in order.
ContentOf(chunks) ==
    IF chunks = <<>> THEN <<>>
    ELSE LET c == chunks[Len(chunks)].content
         IN  ContentOf(SubSeq(chunks, 1, Len(chunks) - 1))
                \o (IF c = None THEN <<>> ELSE c[1])

Heartbeat == [reasoning_content |-> None, content |-> None]
Pieces(chunks) == {i \in 1..Len(chunks) : chunks[i].content # None}
Heartbeats(chunks) == {i \in 1..Len(chunks) : chunks[i] = Heartbeat}
Rest == Slice(TAGGED_TEXT, Len(ContentOf(delivered)), Len(TAGGED_TEXT))

\* The service sends the next piece of TAGGED_TEXT, of any length.
SplitPiece ==
    \E n \in 1..Len(Rest) :
       /\ Cardinality(Pieces(delivered)) + 1 < MaxPieces \/ n = Len(Rest)
       /\ Consume([reasoning_content |-> None, content |-> Some(SubSeq(Rest, 1, n))])

SplitHeartbeat ==
    /\ Cardinality(Heartbeats(delivered)) < MaxHeartbeats
    /\ Consume(Heartbeat)

SplitEnd ==
    /\ Rest = <<>>
    /\ StreamEnds

SplitNext ==
    \/ Construct
    \/ RunStart
    \/ CreateReturns
    \/ SplitPiece
    \/ SplitHeartbeat
    \/ SplitEnd

SplitSpec == Init /\ [][SplitNext]_vars

\* ------------------------------------- the same stream, interpreted twice
\* The caller calls run again on the same client after a run whose stream
\* was consumed to its end; the outcome of that run is remembered.
RunAgain ==
    /\ pc = "returned"
    /\ client
    /\ prev = None
    /\ final_json_str # None
    /\ prev' = Some([ delivered |-> delivered, run_thinking |-> run_thinking,
                      final_json_str |-> final_json_str, returned |-> returned,
                      exc |-> exc ])
    /\ messages' = PrepareMessages(system_prompt_template, user_input, enable_thinking)
    /\ requests' = requests + 1
    /\ pc' = "creating"
    /\ exc' = "None"
    /\ run_thinking' = None
    /\ final_json_str' = None
    /\ returned' = None
    /\ UNCHANGED <<env, tasks, logcfg, client, system_prompt_template, user_input,
                   enable_thinking, delivered, locals, printed, logged>>

FirstChunk ==
    /\ prev = None
    /\ Len(delivered) < MaxReplay
    /\ \E chunk \in Chunks : Consume(chunk)

FirstEnd ==
    /\ prev = None
    /\ StreamEnds

\* The service delivers to the second run the chunks it delivered to the first.
ReplayChunk ==
    /\ prev # None
    /\ Len(delivered) < Len(prev[1].delivered)
    /\ Consume(prev[1].delivered[Len(delivered) + 1])

ReplayEnd ==
    /\ prev # None
    /\ Len(delivered) = Len(prev[1].delivered)
    /\ StreamEnds

TwiceNext ==
    \/ Construct
    \/ RunStart
    \/ CreateReturns
    \/ FirstChunk
    \/ FirstEnd
    \/ RunAgain
    \/ ReplayChunk
    \/ ReplayEnd

TwiceSpec == Init /\ [][TwiceNext]_vars

\* ------------------------------------------- main.main and its two tasks
\* range(1, 100) of PlaywrightServer.run
LoopStop == 100

\* The awaits of PlaywrightHelper.start, in order, and what each one
\* leaves the helper holding when it returns.
StartSteps == <<"start_playwright", "launch", "new_context", "grant", "new_page">>
Acquires(step) ==
    CASE step = "start_playwright" -> {"playwright"}
      [] step = "launch" -> {"browser"}
      [] step = "new_context" -> {"context"}
      [] step = "new_page" -> {"page"}
      [] OTHER -> {}
StepAfter(step) ==
    CASE step = "start_playwright" -> "launch"
      [] step = "launch" -> "new_context"
      [] step = "new_context" -> "grant"
      [] step = "grant" -> "new_page"
      [] OTHER -> "goto"
LoopSteps == {"fill", "press", "wait"}
\* Where PlaywrightServer.run is suspended in an await of its try block.
PwSuspended == {"start_playwright", "launch", "new_context", "grant",
                "new_page", "goto", "fill", "press", "wait", "pause"}

\* PlaywrightHelper.close outside takeover mode: the page, the contexts,
\* the browser and Playwright are released in this order; the first step
\* that raises ends the releasing (the exception is caught and logged).
\* k is the number of steps that succeed.
ReleaseOrder == <<"page", "context", "browser", "playwright">>
CloseReleases(held, k) == held \ {ReleaseOrder[j] : j \in 1..k}

\* A run whose except block is not followed by the close.
RunExceptNext_NoFinally == "done"
\* Lines 33-36 of PlaywrightServer.run: after the except block has logged,
\* the finally block runs.
RunExceptNext == "finally"

\* main.main up to its first await: both tasks are created (lines 25-32).
MainCreateTasks ==
    /\ main_pc = "start"
    /\ main_pc' = "await_ai"
    /\ UNCHANGED <<env, ctl, args, delivered, locals, printed, outs, logged,
                   hist, logcfg, pw_pc, pw_i, pw_held, pw_closes, pw_exc, pw_failed_in>>

\* await ai_client_task (line 32): main goes on when the task has returned;
\* when the task has raised, main.main raises at this await (the task's
\* exception, or CancelledError when SystemExit has stopped the event loop
\* and asyncio.run cancels what is left).
MainAwaitAi ==
    /\ main_pc = "await_ai"
    /\ pc \in {"returned", "raised"}
    /\ main_pc' = IF pc = "returned" THEN "await_pw" ELSE "raised"
    /\ UNCHANGED <<env, ctl, args, delivered, locals, printed, outs, logged,
                   hist, logcfg, pw_pc, pw_i, pw_held, pw_closes, pw_exc, pw_failed_in>>

\* await playwright_task (line 33)
MainAwaitPw ==
    /\ main_pc = "await_pw"
    /\ pw_pc \in {"done", "raised"}
    /\ main_pc' = IF pw_pc = "done" THEN "done" ELSE "raised"
    /\ UNCHANGED <<env, ctl, args, delivered, locals, printed, outs, logged,
                   hist, logcfg, pw_pc, pw_i, pw_held, pw_closes, pw_exc, pw_failed_in>>

\* run_xinference_test (ModelServer.py lines 15-23): the steps of the client
\* inside the model task, run being called with enable_thinking=False.  The
\* stream is taken to end without a chunk: what it carries does not bear
\* on how the task ends, and Spec covers it.
AiConstruct == main_pc # "start" /\ Construct
AiRun == main_pc # "start" /\ RunStart /\ ~enable_thinking'
AiCreateReturns == main_pc # "start" /\ CreateReturns
AiCreateFails == main_pc # "start" /\ CreateFails
AiStreamEnds == main_pc # "start" /\ StreamEnds
AiStreamFails == main_pc # "start" /\ StreamFails

PwFrame == UNCHANGED <<env, ctl, args, delivered, locals, printed, outs, logged,
                       hist, logcfg, main_pc>>

\* PlaywrightServer.run up to the first await of start (lines 16-19, 91-93).
PwBegin ==
    /\ main_pc # "start"
    /\ pw_pc = "new"
    /\ pw_pc' = "start_playwright"
    /\ UNCHANGED <<pw_i, pw_held, pw_closes, pw_exc, pw_failed_in>>
    /\ PwFrame

\* An await of start returns (PlayWright_Helper.py lines 92-139); after
\* the last one run goes on to page.goto (line 21).
PwStartStep ==
    /\ \E k \in 1..Len(StartSteps) : pw_pc = StartSteps[k]
    /\ pw_held' = pw_held \cup Acquires(pw_pc)
    /\ pw_pc' = StepAfter(pw_pc)
    /\ UNCHANGED <<pw_i, pw_closes, pw_exc, pw_failed_in>>
    /\ PwFrame

\* An await of start raises: its except block logs (lines 141-146).
PwStartFails ==
    /\ \E k \in 1..Len(StartSteps) : pw_pc = StartSteps[k]
    /\ pw_exc' = "Error"
    /\ pw_failed_in' = "start"
    /\ pw_pc' = "start_except"
    /\ UNCHANGED <<pw_i, pw_held, pw_closes>>
    /\ PwFrame

\* start's except block closes and re-raises (lines 147-148); run's except
\* block logs (lines 33-34).
PwStartClose ==
    /\ pw_pc = "start_except"
    /\ pw_closes' = pw_closes + 1
    /\ \E k \in 0..Len(ReleaseOrder) : pw_held' = CloseReleases(pw_held, k)
    /\ pw_pc' = RunExceptNext
    /\ UNCHANGED <<pw_i, pw_exc, pw_failed_in>>
    /\ PwFrame

\* page.goto returns and the loop starts (lines 21-25).
PwGoto ==
    /\ pw_pc = "goto"
    /\ pw_i' = 1
    /\ pw_pc' = "fill"
    /\ UNCHANGED <<pw_held, pw_closes, pw_exc, pw_failed_in>>
    /\ PwFrame

\* An await of the loop body returns (lines 23-29); after the last pass
\* run goes on to page.pause (line 31).
PwLoopStep ==
    /\ pw_pc \in LoopSteps
    /\ IF pw_pc = "fill" THEN pw_pc' = "press" /\ UNCHANGED pw_i
       ELSE IF pw_pc = "press" THEN pw_pc' = "wait" /\ UNCHANGED pw_i
       ELSE IF pw_i + 1 < LoopStop THEN pw_pc' = "fill" /\ pw_i' = pw_i + 1
       ELSE pw_pc' = "pause" /\ UNCHANGED pw_i
    /\ UNCHANGED <<pw_held, pw_closes, pw_exc, pw_failed_in>>
    /\ PwFrame

\* page.pause returns: the try block is over and the finally block runs.
PwPause ==
    /\ pw_pc = "pause"
    /\ pw_pc' = "finally"
    /\ UNCHANGED <<pw_i, pw_held, pw_closes, pw_exc, pw_failed_in>>
    /\ PwFrame

\* goto, a loop step or pause raises: run's except block logs (lines 33-34).
PwStepFails ==
    /\ pw_pc \in {"goto", "pause"} \cup LoopSteps
    /\ pw_exc' = "Error"
    /\ pw_failed_in' = IF pw_pc \in LoopSteps THEN "loop" ELSE pw_pc
    /\ pw_pc' = RunExceptNext
    /\ UNCHANGED <<pw_i, pw_held, pw_closes>>
    /\ PwFrame

\* The finally block: close (line 36), then run returns, or lets the
\* CancelledError it did not catch go on.
PwFinally ==
    /\ pw_pc = "finally"
    /\ pw_closes' = pw_closes + 1
    /\ \E k \in 0..Len(ReleaseOrder) : pw_held' = CloseReleases(pw_held, k)
    /\ pw_pc' = IF pw_exc = "CancelledError" THEN "raised" ELSE "done"
    /\ UNCHANGED <<pw_i, pw_exc, pw_failed_in>>
    /\ PwFrame

\* main.main has raised and asyncio.run cancels the tasks still running:
\* CancelledError is raised at the await the browser task is suspended in.
\* Neither except block catches it; inside start's close it ends that
\* close, inside the close of the finally block it leaves run.
PwCancelled ==
    /\ main_pc = "raised"
    /\ pw_exc # "CancelledError"
    /\ pw_pc \in PwSuspended \cup {"start_except", "finally"}
    /\ pw_exc' = "CancelledError"
    /\ pw_failed_in' = "cancel"
    /\ pw_closes' = IF pw_pc \in PwSuspended THEN pw_closes ELSE pw_closes + 1
    /\ pw_pc' = IF pw_pc = "finally" THEN "raised" ELSE "finally"
    /\ UNCHANGED <<pw_i, pw_held>>
    /\ PwFrame

MainNext ==
    \/ MainCreateTasks
    \/ MainAwaitAi
    \/ MainAwaitPw
    \/ AiConstruct
    \/ AiRun
    \/ AiCreateReturns
    \/ AiCreateFails
    \/ AiStreamEnds
    \/ AiStreamFails
    \/ PwBegin
    \/ PwStartStep
    \/ PwStartFails
    \/ PwStartClose
    \/ PwGoto
    \/ PwLoopStep
    \/ PwPause
    \/ PwStepFails
    \/ PwFinally
    \/ PwCancelled

MainSpec == Init /\ [][MainNext]_vars

\* ------------------------------------------------------------ logServer
LsFrame == UNCHANGED <<env, ctl, args, delivered, locals, printed, outs, logged,
                       hist, tasks>>

\* logServer(): __new__ (lines 16-21) allocates the instance only when there
\* is none, and __init__ (lines 23-33) runs on the instance each time and
\* names the log file after the current minute.
LsConstruct ==
    /\ Len(ls_returned) < MaxConstructions
    /\ IF ls_instance = 0
       THEN /\ ls_objects' = ls_objects + 1
            /\ ls_instance' = ls_objects + 1
            /\ ls_file_id' = -1
            /\ ls_console_id' = -1
       ELSE UNCHANGED <<ls_objects, ls_instance, ls_file_id, ls_console_id>>
    /\ ls_returned' = Append(ls_returned, ls_instance')
    /\ ls_filename' = minute
    /\ UNCHANGED <<ls_configs, minute, handlers, next_handler_id, last_emit>>
    /\ LsFrame

\* set_config (lines 35-94): the remove() of line 49 is commented out, the
\* two recorded ids are forgotten and two handlers are added.
LsSetConfig ==
    /\ ls_instance # 0
    /\ ls_configs < MaxConfigs
    /\ \E file_log_level \in ConfigLevels, console_log_level \in ConfigLevels :
          handlers' = handlers \cup
             { [id |-> next_handler_id, sink |-> "file", name |-> ls_filename,
                level |-> file_log_level, by |-> "logServer"],
               [id |-> next_handler_id + 1, sink |-> "stderr", name |-> 0,
                level |-> console_log_level, by |-> "logServer"] }
    /\ ls_file_id' = next_handler_id
    /\ ls_console_id' = next_handler_id + 1
    /\ next_handler_id' = next_handler_id + 2
    /\ ls_configs' = ls_configs + 1
    /\ UNCHANGED <<ls_objects, ls_instance, ls_returned, ls_filename, minute,
                   last_emit>>
    /\ LsFrame

\* A logger call: every handler whose level the message reaches writes one
\* line to its sink.
LsLog ==
    /\ \E l \in MessageLevels :
          last_emit' = Some(
             [ level |-> l, configs |-> ls_configs,
               console |-> Cardinality({h \in handlers :
                              h.sink = "stderr" /\ LevelNo(l) >= LevelNo(h.level)}),
               file |-> Cardinality({h \in handlers :
                              h.sink = "file" /\ LevelNo(l) >= LevelNo(h.level)}) ])
    /\ UNCHANGED <<ls_objects, ls_instance, ls_returned, ls_filename, ls_file_id,
                   ls_console_id, ls_configs, minute, handlers, next_handler_id>>
    /\ LsFrame

\* A minute passes.
LsTick ==
    /\ minute < MaxMinute
    /\ minute' = minute + 1
    /\ UNCHANGED <<ls_objects, ls_instance, ls_returned, ls_filename, ls_file_id,
                   ls_console_id, ls_configs, handlers, next_handler_id, last_emit>>
    /\ LsFrame

LogNext ==
    \/ LsConstruct
    \/ LsSetConfig
    \/ LsLog
    \/ LsTick

LogSpec == Init /\ [][LogNext]_vars

\* ------------------------------------------------------------- properties
\* What the stream has delivered, read off the chunks themselves.
ReasoningSeen(chunks) ==
    {i \in 1..Len(chunks) : chunks[i].reasoning_content # None}
Finalized == final_json_str # None

\* t is s without its leading and trailing whitespace.
IsTrimOf(t, s) ==
    \E i \in 1..(Len(s) + 1), j \in 0..Len(s) :
       /\ t = SubSeq(s, i, j)
       /\ \A k \in 1..Len(s) : (k < i \/ k > j) => s[k] \in Whitespace
       /\ t = <<>> \/ (t[1] \notin Whitespace /\ t[Len(t)] \notin Whitespace)

\* C1: once a delivered chunk has carried a non-null reasoning delta, the
\* flag is_official_api is set in every later state of the loop and at the
\* final parse, whatever the later chunks carry; the pair returned is then
\* the one of the dual-channel branch.
C1_DialectSticky ==
    ReasoningSeen(delivered) # {} =>
        /\ is_official_api
        /\ Finalized => final_json_str = Some(final_answer)

C1_Witness ==
    /\ Finalized
    /\ Len(delivered) >= 2
    /\ delivered[1].reasoning_content # None
    /\ delivered[Len(delivered)].reasoning_content = None
    /\ delivered[Len(delivered)].content # None
    /\ is_official_api

\* C2: whatever the boundaries of the chunks that carry TAGGED_TEXT (and
\* wherever heartbeats fall between them), the accumulated content is the
\* concatenation of the deltas and the run ends with reasoning "abc" and
\* the answer {"x":1}, which it returns.
C2_BoundaryIndependent ==
    /\ pc = "streaming" => full_response_content = ContentOf(delivered)
    /\ Finalized =>
          /\ run_thinking = Some(<<"a", "b", "c">>)
          /\ final_json_str = Some(ANSWER_JSON)
          /\ returned = Some(ANSWER_JSON)
          /\ pc = "returned"

\* A split inside the opening tag and inside the closing tag, with a
\* heartbeat between the pieces.
C2_Witness ==
    /\ Finalized
    /\ Cardinality(Pieces(delivered)) = 3
    /\ Heartbeats(delivered) # {}
    /\ \E i \in Pieces(delivered) :
          /\ Len(ContentOf(SubSeq(delivered, 1, i))) < Len(START_TAG)
    /\ \E i \in Pieces(delivered) :
          /\ Len(ContentOf(SubSeq(delivered, 1, i))) > Len(START_TAG) + 3
          /\ Len(ContentOf(SubSeq(delivered, 1, i))) < Len(START_TAG) + 3 + Len(END_TAG)

\* C3 (as claimed): when the answer text is not valid JSON, what run hands
\* back to its caller still carries the raw answer text.
C3_RawTextPreserved ==
    (pc = "returned" /\ exc = "JSONDecodeError") => returned = final_json_str

AnswerTextReaches(chunks) ==
    IF ReasoningSeen(chunks) # {}
    THEN \E i \in Min(ReasoningSeen(chunks))..Len(chunks) :
            chunks[i].content # None /\ chunks[i].content[1] # <<>>
    ELSE LET raw == ContentOf(chunks)
             open == Find(raw, START_TAG)
             close == Find(raw, END_TAG)
             from == IF open # -1 /\ close # -1 /\ open < close
                     THEN close + Len(END_TAG) ELSE 0
         IN  \E k \in (from + 1)..Len(raw) : raw[k] \notin Whitespace

C5_NoOpenTag ==
    (Finalized /\ ReasoningSeen(delivered) = {}
       /\ ~Contains(ContentOf(delivered), START_TAG)) =>
        /\ run_thinking = Some(SENTINEL)
        /\ IsTrimOf(final_json_str[1], ContentOf(delivered))

C5_Witness ==
    /\ Finalized
    /\ ReasoningSeen(delivered) = {}
    /\ ~Contains(ContentOf(delivered), START_TAG)
    /\ Contains(ContentOf(delivered), END_TAG)
    /\ ContentOf(delivered)[1] \in Whitespace
    /\ ContentOf(delivered)[Len(ContentOf(delivered))] \in Whitespace

\* C6: with no reasoning delta and the first </think> before the first
\* <think>, the reasoning returned is the sentinel and the answer is the
\* whole content trimmed: nothing between the tags is taken as reasoning.
C6_CloseBeforeOpen ==
    (Finalized /\ ReasoningSeen(delivered) = {}
       /\ Find(ContentOf(delivered), START_TAG) # -1
       /\ Find(ContentOf(delivered), END_TAG) # -1
       /\ Find(ContentOf(delivered), END_TAG) < Find(ContentOf(delivered), START_TAG)) =>
        /\ run_thinking = Some(SENTINEL)
        /\ IsTrimOf(final_json_str[1], ContentOf(delivered))

C6_Witness ==
    /\ Finalized
    /\ ReasoningSeen(delivered) = {}
    /\ Find(ContentOf(delivered), END_TAG) = 0
    /\ Find(ContentOf(delivered), START_TAG) = Len(END_TAG)
    /\ Len(ContentOf(delivered)) > Len(END_TAG) + Len(START_TAG)
    /\ run_thinking = Some(SENTINEL)

\* C7: the messages are exactly a system message with the prompt as read
\* from the file and a user message; the user content is the input itself
\* when thinking is enabled, and the ten characters "/no_think\n" followed
\* by the input when it is not.
C7_Messages ==
    messages # <<>> =>
        /\ Len(messages) = 2
        /\ messages[1].role = "system"
        /\ messages[2].role = "user"
        /\ messages[1].content = Some(prompt_file.text)
        /\ enable_thinking => messages[2].content = user_input
        /\ ~enable_thinking =>
              /\ Len(messages[2].content) = 10 + Len(user_input)
              /\ SubSeq(messages[2].content, 1, 10)
                    = <<"/", "n", "o", "_", "t", "h", "i", "n", "k", "\n">>
              /\ SubSeq(messages[2].content, 11, Len(messages[2].content))
                    = user_input

C7_Witness ==
    /\ messages # <<>>
    /\ ~enable_thinking
    /\ user_input # <<>>
    /\ prompt_file.text # Strip(prompt_file.text)

\* C8: after a transport error (from the generation call or from the
\* stream) run has returned None, the final parse and the validation were
\* not run on the partial buffers, and one request was issued.
C8_TransportAbandons ==
    exc = "APIError" =>
        /\ pc = "returned"
        /\ returned = None
        /\ run_thinking = None
        /\ final_json_str = None
        /\ requests = 1
        /\ \A i \in 1..Len(logged) :
              logged[i][2] \notin {"model_reasoning", "model_output"}

C8_Witness ==
    /\ exc = "APIError"
    /\ Len(delivered) >= 2
    /\ thinking_process # <<>>
    /\ final_answer # <<>>

\* C9: once the caller has cancelled, CancelledError leaves run: run has
\* not returned, nothing was finalized, validated or error-logged, and no
\* later step consumes a chunk or changes a buffer.
C9_CancelPropagates ==
    /\ [](exc = "CancelledError" =>
            /\ pc = "raised"
            /\ returned = None
            /\ run_thinking = None
            /\ final_json_str = None
            /\ \A i \in 1..Len(logged) :
                  logged[i][2] \notin {"model_reasoning", "model_output", "call_failed"})
    /\ [][exc = "CancelledError" => UNCHANGED <<delivered, locals, outs>>]_vars

C9_Witness ==
    /\ exc = "CancelledError"
    /\ pc = "raised"
    /\ Len(delivered) >= 1
    /\ full_response_content # <<>>

\* C10: with a prompt file that is missing or unreadable no client object
\* ever exists, no messages are built and no request is issued; the
\* construction ends with SystemExit or with the error of the read.
C10_NoPromptNoRequest ==
    prompt_file.kind # "ok" =>
        /\ ~client
        /\ requests = 0
        /\ messages = <<>>
        /\ system_prompt_template = None
        /\ pc \in {"start", "raised"}
        /\ pc = "raised" => exc \in {"SystemExit", "OSError"}

C10_Witness ==
    /\ prompt_file.kind = "missing"
    /\ pc = "raised"
    /\ exc = "SystemExit"
    /\ logged[Len(logged)] = <<"error", "prompt_not_found">>

\* C11: a second run of the same client over the chunk sequence of its
\* first run starts from empty buffers and an unset flag, and ends with the
\* same reasoning, the same answer, the same returned value and the same
\* parse outcome as the first.
C11_SameResult ==
    prev # None =>
        /\ (pc = "streaming" /\ delivered = <<>>) =>
              /\ ~is_official_api
              /\ thinking_process = <<>>
              /\ final_answer = <<>>
              /\ full_response_content = <<>>
        /\ Finalized =>
              /\ delivered = prev[1].delivered
              /\ run_thinking = prev[1].run_thinking
              /\ final_json_str = prev[1].final_json_str
              /\ returned = prev[1].returned
              /\ exc = prev[1].exc

C11_Witness ==
    /\ prev # None
    /\ Finalized
    /\ Len(delivered) = 2
    /\ returned # None
    /\ run_thinking # Some(SENTINEL)

RECURSIVE ReasoningOf(_), ForwardedOf(_)
\* The reasoning deltas of a chunk sequence, concatenated in order.
ReasoningOf(chunks) ==
    IF chunks = <<>> THEN <<>>
    ELSE LET r == chunks[Len(chunks)].reasoning_content
         IN  ReasoningOf(SubSeq(chunks, 1, Len(chunks) - 1))
                \o (IF r = None THEN <<>> ELSE r[1])

\* The non-null deltas of a chunk sequence, one entry each, in arrival
\* order and within a chunk the reasoning delta first.
ForwardedOf(chunks) ==
    IF chunks = <<>> THEN <<>>
    ELSE LET last == chunks[Len(chunks)]
         IN  ForwardedOf(SubSeq(chunks, 1, Len(chunks) - 1))
                \o last.reasoning_content \o last.content

IsPrefix(s, t) == Len(s) <= Len(t) /\ SubSeq(t, 1, Len(s)) = s

\* sub occurs in s at Python index i and nowhere before.
IsFirstAt(s, sub, i) ==
    /\ i + Len(sub) <= Len(s)
    /\ Slice(s, i, i + Len(sub)) = sub
    /\ \A j \in 0..(i - 1) : Slice(s, j, j + Len(sub)) # sub

C13_OneBuffer ==
    [][ ( /\ pc = "streaming"
          /\ Len(delivered') = Len(delivered) + 1
          /\ delivered'[Len(delivered')].content # None ) =>
        IF ReasoningSeen(delivered') # {}
        THEN /\ final_answer' = final_answer \o delivered'[Len(delivered')].content[1]
             /\ full_response_content' = full_response_content
        ELSE /\ full_response_content'
                   = full_response_content \o delivered'[Len(delivered')].content[1]
             /\ final_answer' = final_answer ]_vars

C13_Witness ==
    /\ pc = "streaming"
    /\ Len(delivered) = 2
    /\ delivered[1].reasoning_content = None
    /\ delivered[1].content \notin {None, Some(<<>>)}
    /\ delivered[2].reasoning_content # None
    /\ delivered[2].content \notin {None, Some(<<>>)}
    /\ full_response_content = delivered[1].content[1]
    /\ final_answer = delivered[2].content[1]

\* C14: when a reasoning delta was seen, the reasoning returned is the
\* concatenation of the reasoning deltas, or the sentinel when that is
\* empty, and the answer returned is final_answer as accumulated.
C14_DualFinal ==
    (Finalized /\ ReasoningSeen(delivered) # {}) =>
        /\ run_thinking = Some(IF ReasoningOf(delivered) = <<>> THEN SENTINEL
                               ELSE ReasoningOf(delivered))
        /\ final_json_str = Some(final_answer)

\* Only empty reasoning deltas, and an answer with both tags and trailing
\* whitespace that is returned untouched.
C14_Witness ==
    /\ Finalized
    /\ ReasoningSeen(delivered) # {}
    /\ run_thinking = Some(SENTINEL)
    /\ Contains(final_json_str[1], START_TAG)
    /\ Contains(final_json_str[1], END_TAG)
    /\ final_json_str[1][Len(final_json_str[1])] \in Whitespace

\* C15: every step taken while the loop runs leaves each of the three
\* buffers with its previous value as a prefix, and the step over a
\* heartbeat chunk changes neither a buffer nor the flag.
C15_AppendOnly ==
    [][ pc = "streaming" =>
          /\ IsPrefix(thinking_process, thinking_process')
          /\ IsPrefix(final_answer, final_answer')
          /\ IsPrefix(full_response_content, full_response_content')
          /\ delivered' = Append(delivered, Heartbeat) => UNCHANGED locals ]_vars

C15_Witness ==
    /\ pc = "streaming"
    /\ Len(delivered) = 3
    /\ delivered[3] = Heartbeat
    /\ thinking_process # <<>>
    /\ final_answer # <<>>
    /\ full_response_content # <<>>

\* C16: in the tagged format only the first <think> and the first </think>
\* count: when the first <think> comes first, the reasoning is the trimmed
\* text between the two and the answer the trimmed text after that first
\* </think>, later tags included; when the first </think> comes first, the
\* sentinel and the whole trimmed content are returned even if a
\* well-formed pair follows.
C16_FirstOccurrences ==
    (Finalized /\ ReasoningSeen(delivered) = {}) =>
        LET raw == ContentOf(delivered)
        IN  \A o, c \in 0..Len(raw) :
               (IsFirstAt(raw, START_TAG, o) /\ IsFirstAt(raw, END_TAG, c)) =>
                  IF o < c
                  THEN /\ IsTrimOf(run_thinking[1], Slice(raw, o + 7, c))
                       /\ IsTrimOf(final_json_str[1], Slice(raw, c + 8, Len(raw)))
                  ELSE /\ run_thinking = Some(SENTINEL)
                       /\ IsTrimOf(final_json_str[1], raw)

C16_Witness ==
    /\ Finalized
    /\ ReasoningSeen(delivered) = {}
    /\ IsFirstAt(ContentOf(delivered), START_TAG, 0)
    /\ run_thinking = Some(<<"a">>)
    /\ final_json_str = Some(END_TAG)

\* C17: when a reasoning delta was seen, the answer returned is the
\* concatenation of the content deltas from the first chunk with a
\* reasoning delta on; the content deltas before it are in
\* full_response_content only, and the reasoning returned is made of the
\* reasoning deltas alone.
C17_DualAnswer ==
    (Finalized /\ ReasoningSeen(delivered) # {}) =>
        LET first == Min(ReasoningSeen(delivered))
        IN  /\ final_json_str
                 = Some(ContentOf(SubSeq(delivered, first, Len(delivered))))
            /\ full_response_content = ContentOf(SubSeq(delivered, 1, first - 1))
            /\ run_thinking \in {Some(ReasoningOf(delivered)), Some(SENTINEL)}

C17_Witness ==
    /\ Finalized
    /\ ReasoningSeen(delivered) # {}
    /\ Min(ReasoningSeen(delivered)) = 2
    /\ delivered[1].content = Some(<<" ", "1">>)
    /\ delivered[2].content = Some(END_TAG)
    /\ final_json_str = Some(END_TAG)

\* C18 (as claimed): once the pair is back in run, no "model reasoning"
\* message has been logged when the reasoning is the sentinel, and exactly
\* one when it is non-empty and not the sentinel.
ReasoningLogs == {i \in 1..Len(logged) : logged[i] = <<"info", "model_reasoning">>}
C18_ReasoningLoggedOnlyWhenFound ==
    Finalized =>
        /\ run_thinking = Some(SENTINEL) => ReasoningLogs = {}
        /\ (run_thinking[1] # <<>> /\ run_thinking # Some(SENTINEL)) =>
              Cardinality(ReasoningLogs) = 1

\* C19 (as claimed): whenever main.main has completed or raised, the model
\* task and the browser task have both finished.
C19_BothTasksFinished ==
    main_pc \in {"done", "raised"} =>
        /\ pc \in {"returned", "raised"}
        /\ pw_pc \in {"done", "raised"}

\* C20: PlaywrightServer.run has called close at least once when it is
\* over, it ends by returning unless it was cancelled, and when an
\* exception of start reaches run's handlers close has been called already.
C20_CloseOnEveryPath ==
    /\ pw_pc \in {"done", "raised"} => pw_closes >= 1
    /\ pw_pc = "raised" => pw_exc = "CancelledError"
    /\ (pw_failed_in = "start" /\ pw_pc \in {"finally", "done"}) => pw_closes >= 1
    /\ (pw_failed_in = "start" /\ pw_pc = "done") => pw_closes = 2

C20_Witness ==
    /\ pw_pc = "done"
    /\ pw_failed_in = "loop"
    /\ pw_i = LoopStop - 1
    /\ pw_closes = 1
    /\ pw_held = {}

\* C21 (as claimed): every logServer() call returns the same object, and
\* once set_config has been called the logger has exactly one file handler
\* and one console handler added by logServer, and a log call made after
\* set_config, at a level every handler lets through, writes one console
\* line and one file line.
C21_SingletonOneHandlerEach ==
    /\ \A i, j \in 1..Len(ls_returned) : ls_returned[i] = ls_returned[j]
    /\ ls_configs >= 1 =>
          Cardinality({h \in handlers :
                             h.by = "logServer" /\ h.sink = "file"}) = 1
    /\ ls_configs >= 1 =>
          Cardinality({h \in handlers :
                             h.by = "logServer" /\ h.sink = "stderr"}) = 1
    /\ (/\ last_emit # None
        /\ last_emit[1].configs >= 1
        /\ last_emit[1].level = "ERROR") =>
          /\ last_emit[1].console = 1
          /\ last_emit[1].file = 1

====
